---- MODULE Spec2Model ----
(***************************************************************************)
(* A model of the vtpack crate (src/vtpack/src/lib.rs): the binrw layout   *)
(* of a "vtPack" archive, the resolution of every raw entry into a path,   *)
(* and the extraction of the resolved entries into a directory tree.       *)
(*                                                                         *)
(* Bytes are numbers 0..255, byte strings and texts are sequences of       *)
(* numbers (a text holds code points).  TLC's integers are 32 bits wide,   *)
(* so a little-endian field is kept as the tuple of its bytes and is       *)
(* turned into a number only through LeValue, which saturates at Huge:     *)
(* every length of the model is far below Huge, so a saturated value       *)
(* compares with them exactly as the real one does.                        *)
(***************************************************************************)
EXTENDS Integers, Sequences, FiniteSets, TLC

VARIABLES
    target,       \* the platform the crate is built for: fixes std::path::MAIN_SEPARATOR
    input,        \* the archive description the byte source was laid out from
    src,          \* the bytes of the seekable source (reader)
    pos,          \* the cursor of the reader
    pc,           \* "init", "ready" (a VtPackFile is held), "failed", "aborted"
    result,       \* outcome of VtPackFile::new: "none", "ok", "err", "panic"
    raw,          \* VtPackFile.raw
    p_entries,    \* VtPackFile.p_entries
    entries_pos,  \* the cursor at which the read of `entries` began
    fs,           \* the filesystem: a set of nodes [path, kind, data]
    fs_before,    \* the filesystem as it was before the last extraction call
    last_op,      \* the last extraction call and its outcome
    ops           \* number of extraction calls made

vars == <<target, input, src, pos, pc, result, raw, p_entries, entries_pos,
          fs, fs_before, last_op, ops>>

---------------------------------------------------------------------------
(* Bounds of the model *)

\* Largest number of entries of an archive with several entries.
MaxEntries == 2
\* Largest number of export_all / save_entry calls made on one VtPackFile.
MaxOps == 2
\* Stands for every field value of 2^24 or more (see the header comment).
Huge == 1073741824

---------------------------------------------------------------------------
(* Bytes and little-endian integers (binrw, #[br(little)]) *)

Max(a, b) == IF a >= b THEN a ELSE b
Min(a, b) == IF a <= b THEN a ELSE b

Zeros(n) == [i \in 1..n |-> 0]

\* The value of a little-endian field, saturated at Huge.
LeValue(bytes) ==
    IF \E i \in 4..Len(bytes) : bytes[i] # 0
    THEN Huge
    ELSE bytes[1] + 256 * bytes[2] + 65536 * bytes[3]

\* read_exact on a source that also yields fewer bytes than asked: a mutant.
ReadExact_padded(data, at, n) ==
    IF n > Len(data)
    THEN [ok |-> FALSE, bytes |-> <<>>]
    ELSE [ok |-> TRUE,
          bytes |-> [i \in 1..n |-> IF at + i <= Len(data) THEN data[at + i] ELSE 0]]

\* Reading exactly n bytes at `at`: every field read of binrw fails with an
\* I/O error (UnexpectedEof) when the source ends first.
ReadExact(data, at, n) ==
    IF at + n <= Len(data)
    THEN [ok |-> TRUE, bytes |-> SubSeq(data, at + 1, at + n)]
    ELSE [ok |-> FALSE, bytes |-> <<>>]

---------------------------------------------------------------------------
(* The layout: VtPackRawFile, VtPackStringTable, VtPackRawEntryHeader *)

\* b"vtPack"
Magic == <<118, 116, 80, 97, 99, 107>>

\* u32::MAX, as the four bytes of the field
INVALID_STRING_TABLE_OFFSET == <<255, 255, 255, 255>>

\* VtPackVersion: the u32 codes of Ver1 and Ver2
VtPackVersion == {1, 2}

\* The version-conditional width read as 4 bytes whatever the version: a mutant.
HeaderFieldWidth_v1only(version) == 4

\* Width of unk3, unk4 and str_table_abs_offset: the _v1 field (u32) is read
\* if version == Ver1, the _v2 field (u64) if version == Ver2.
HeaderFieldWidth(version) == IF version = 1 THEN 4 ELSE 8

\* Bytes of one VtPackRawEntryHeader: 3 x u32, 3 x u64, 2 x u32.
EntryLen == 3 * 4 + 3 * 8 + 2 * 4

\* One VtPackRawEntryHeader from its bytes.
ParseEntry(b) ==
    [path_name_str_table_offset |-> SubSeq(b, 1, 4),
     path_dir_str_table_offset  |-> SubSeq(b, 5, 8),
     unk1                       |-> SubSeq(b, 9, 12),
     file_size                  |-> SubSeq(b, 13, 20),
     unk2                       |-> SubSeq(b, 21, 28),
     file_data_abs_offset       |-> SubSeq(b, 29, 36),
     unk3                       |-> SubSeq(b, 37, 40),
     unk4                       |-> SubSeq(b, 41, 44)]

NoRaw == [version |-> 0, entry_count |-> 0, table_data |-> <<>>, entries |-> <<>>]

ReadErr(kind, at) ==
    [status |-> "err", error |-> kind, raw |-> NoRaw, pos |-> at, entries_pos |-> 0]

\* The cursor for `entries` put back after the header (restore_position on
\* str_table): a mutant.
EntriesStart_after_header(hdr_end, pool_end) == hdr_end

\* Where the read of `entries` starts: str_table has seek_before and no
\* restore_position, so the cursor stays where the read of the pool left it.
EntriesStart(hdr_end, pool_end) == pool_end

\* VtPackRawFile::read at cursor `at`.
VtPackRawFile_read(data, at) ==
    LET magic == ReadExact(data, at, 6)
        ver   == ReadExact(data, at + 6, 4)
    IN
    IF ~magic.ok THEN ReadErr("Io", at)
    ELSE IF magic.bytes # Magic THEN ReadErr("BadMagic", at)
    ELSE IF ~ver.ok THEN ReadErr("Io", at)
    ELSE IF LeValue(ver.bytes) \notin VtPackVersion THEN ReadErr("NoVariantMatch", at)
    ELSE
    LET version == LeValue(ver.bytes)
        w       == HeaderFieldWidth(version)
        cnt_at  == at + 18 + 2 * w
        count   == ReadExact(data, cnt_at, 4)
        off     == ReadExact(data, cnt_at + 4, w)
        hdr_end == cnt_at + 4 + w
    IN
    IF ~count.ok \/ ~off.ok THEN ReadErr("Io", at)
    ELSE
    LET str_table_abs_offset_v1 == IF version = 1 THEN LeValue(off.bytes) ELSE 0
        str_table_abs_offset_v2 == IF version = 2 THEN LeValue(off.bytes) ELSE 0
        pool_at    == Max(str_table_abs_offset_v2, str_table_abs_offset_v1)
        size       == ReadExact(data, pool_at, 4)
        table_size == IF size.ok THEN LeValue(size.bytes) ELSE 0
        table      == ReadExact(data, pool_at + 4, table_size)
        pool_end   == pool_at + 4 + table_size
        ent_at     == EntriesStart(hdr_end, pool_end)
        entry_count == LeValue(count.bytes)
    IN
    IF ~size.ok \/ ~table.ok THEN ReadErr("Io", at)
    ELSE IF entry_count = Huge \/ ~ReadExact(data, ent_at, entry_count * EntryLen).ok
         THEN ReadErr("Io", at)
    ELSE
    [status |-> "ok", error |-> "none",
     raw |-> [version |-> version,
              entry_count |-> entry_count,
              table_data |-> table.bytes,
              entries |-> [i \in 1..entry_count |->
                  ParseEntry(ReadExact(data, ent_at + (i - 1) * EntryLen, EntryLen).bytes)]],
     pos |-> ent_at + entry_count * EntryLen,
     entries_pos |-> ent_at]

---------------------------------------------------------------------------
(* Path resolution: VtPackFile::process_entries *)

\* The characters the resolution and std::path look at.
Backslash == 92
Slash == 47
Colon == 58
\* U+FFFD, what to_string_lossy puts for an invalid UTF-8 sequence
ReplacementChar == 65533

\* std::path::MAIN_SEPARATOR of the target
MAIN_SEPARATOR(t) == IF t = "windows" THEN Backslash ELSE Slash

\* std::path::is_separator of the target
IsSeparator(t, c) == IF t = "windows" THEN c \in {Backslash, Slash} ELSE c = Slash

\* String::from_utf8_lossy on bytes that are ASCII or bytes that no UTF-8
\* sequence holds (0xC0, 0xC1, 0xF5..0xFF): each such byte becomes U+FFFD.
ToStringLossy(bytes) ==
    [i \in 1..Len(bytes) |-> IF bytes[i] < 128 THEN bytes[i] ELSE ReplacementChar]

\* Index of the first NUL of bytes, 0 when there is none.
FirstNul(bytes) ==
    IF \E i \in 1..Len(bytes) : bytes[i] = 0
    THEN CHOOSE i \in 1..Len(bytes) :
            bytes[i] = 0 /\ \A j \in 1..(i - 1) : bytes[j] # 0
    ELSE 0

\* One string of the pool: &table_data[offset as usize..] panics when the
\* offset is past the end, CStr::from_bytes_until_nul(..).unwrap() panics when
\* no NUL follows; the sentinel gives String::new().
ReadPoolString(table_data, offset) ==
    IF offset = INVALID_STRING_TABLE_OFFSET THEN [panic |-> FALSE, str |-> <<>>]
    ELSE IF LeValue(offset) > Len(table_data) THEN [panic |-> TRUE, str |-> <<>>]
    ELSE LET str_ref == SubSeq(table_data, LeValue(offset) + 1, Len(table_data))
             nul     == FirstNul(str_ref)
         IN IF nul = 0 THEN [panic |-> TRUE, str |-> <<>>]
            ELSE [panic |-> FALSE, str |-> ToStringLossy(SubSeq(str_ref, 1, nul - 1))]

\* str::replace("\\\\", "\\"): one pass, left to right, over non-overlapping
\* matches.
RECURSIVE ReplaceDoubled(_)
ReplaceDoubled(s) ==
    IF Len(s) = 0 THEN <<>>
    ELSE IF Len(s) >= 2 /\ s[1] = Backslash /\ s[2] = Backslash
         THEN <<Backslash>> \o ReplaceDoubled(SubSeq(s, 3, Len(s)))
         ELSE <<s[1]>> \o ReplaceDoubled(Tail(s))

\* str::replace("\\", MAIN_SEPARATOR_STR)
ReplaceSeparator(s, t) ==
    [i \in 1..Len(s) |-> IF s[i] = Backslash THEN MAIN_SEPARATOR(t) ELSE s[i]]

\* while path.starts_with(MAIN_SEPARATOR) { path.remove(0); }
RECURSIVE StripLeading(_, _)
StripLeading(s, t) ==
    IF Len(s) > 0 /\ s[1] = MAIN_SEPARATOR(t) THEN StripLeading(Tail(s), t) ELSE s

\* format!("{}\\{}", dir_str, name_str), the two replaces and the strip
ResolvePath(dir_str, name_str, t) ==
    StripLeading(ReplaceSeparator(ReplaceDoubled(dir_str \o <<Backslash>> \o name_str), t), t)

\* `x as usize` of a u64 field (usize is 64 bits wide on the modelled targets)
AsUsize(bytes) == LeValue(bytes)

\* The size zeroed for a directory: a mutant.
ProcessedFileSize_zero_for_dir(entry) ==
    IF entry.file_data_abs_offset # Zeros(8) THEN AsUsize(entry.file_size) ELSE 0

\* file_size: entry.file_size as usize
ProcessedFileSize(entry) == AsUsize(entry.file_size)

\* is_file: entry.file_data_abs_offset != 0
ProcessedIsFile(entry) == entry.file_data_abs_offset # Zeros(8)

\* The VtPackProcessedEntry of one raw entry (defined when neither string
\* read panics).
ProcessEntry(table_data, entry, t) ==
    [is_file |-> ProcessedIsFile(entry),
     path |-> ResolvePath(ReadPoolString(table_data, entry.path_dir_str_table_offset).str,
                          ReadPoolString(table_data, entry.path_name_str_table_offset).str, t),
     file_size |-> ProcessedFileSize(entry),
     file_data_abs_offset |-> LeValue(entry.file_data_abs_offset)]

EntryPanics(table_data, entry) ==
    \/ ReadPoolString(table_data, entry.path_dir_str_table_offset).panic
    \/ ReadPoolString(table_data, entry.path_name_str_table_offset).panic

\* process_entries: the loop over raw.entries; a panic leaves no VtPackFile.
process_entries(r, t) ==
    IF \E i \in 1..Len(r.entries) : EntryPanics(r.table_data, r.entries[i])
    THEN [panic |-> TRUE, p_entries |-> <<>>]
    ELSE [panic |-> FALSE,
          p_entries |-> [i \in 1..Len(r.entries) |-> ProcessEntry(r.table_data, r.entries[i], t)]]

\* VtPackFile::new: VtPackRawFile::read(reader)?, then process_entries.
VtPackFile_new(data, at, t) ==
    LET rd == VtPackRawFile_read(data, at) IN
    IF rd.status = "err"
    THEN [status |-> "err", raw |-> NoRaw, p_entries |-> <<>>, pos |-> rd.pos,
          entries_pos |-> rd.entries_pos]
    ELSE LET pr == process_entries(rd.raw, t) IN
         IF pr.panic
         THEN [status |-> "panic", raw |-> NoRaw, p_entries |-> <<>>, pos |-> rd.pos,
               entries_pos |-> rd.entries_pos]
         ELSE [status |-> "ok", raw |-> rd.raw, p_entries |-> pr.p_entries, pos |-> rd.pos,
               entries_pos |-> rd.entries_pos]

---------------------------------------------------------------------------
(* std::path::Path and std::fs, as far as save_entry and export_all use them *)

IsAsciiLetter(c) == c \in 65..90 \/ c \in 97..122

\* A drive prefix ("c:"), which only Windows paths have.
HasPrefix(t, s) == t = "windows" /\ Len(s) >= 2 /\ IsAsciiLetter(s[1]) /\ s[2] = Colon

AfterPrefix(t, s) == IF HasPrefix(t, s) THEN SubSeq(s, 3, Len(s)) ELSE s

\* Path::has_root
HasRoot(t, s) == Len(AfterPrefix(t, s)) > 0 /\ IsSeparator(t, AfterPrefix(t, s)[1])

\* Path::join (PathBuf::push) onto a relative base without prefix: a path with
\* a prefix or a root replaces the base, any other is appended after a
\* separator.
Join(base, path, t) ==
    IF HasPrefix(t, path) \/ HasRoot(t, path)
    THEN path
    ELSE base \o <<MAIN_SEPARATOR(t)>> \o path

\* The normal components of a path: the non-empty runs between separators.
RECURSIVE SplitComponents(_, _, _)
SplitComponents(t, s, cur) ==
    IF Len(s) = 0 THEN (IF cur = <<>> THEN <<>> ELSE <<cur>>)
    ELSE IF IsSeparator(t, s[1])
         THEN (IF cur = <<>> THEN <<>> ELSE <<cur>>) \o SplitComponents(t, Tail(s), <<>>)
         ELSE SplitComponents(t, Tail(s), Append(cur, s[1]))

\* Where a path leads: its anchor (drive prefix, root; both empty for a path
\* relative to the working directory) and its normal components.
Location(t, s) ==
    [prefix |-> IF HasPrefix(t, s) THEN SubSeq(s, 1, 2) ELSE <<>>,
     root   |-> HasRoot(t, s),
     comps  |-> SplitComponents(t, AfterPrefix(t, s), <<>>)]

EndsWithSeparator(t, s) == Len(s) > 0 /\ IsSeparator(t, s[Len(s)])

Front(q) == SubSeq(q, 1, Len(q) - 1)

\* Path::parent of a location with at least one normal component
Parent(loc) == [loc EXCEPT !.comps = Front(loc.comps)]

\* The locations from the first component down to loc itself.
Ancestry(loc) == {[loc EXCEPT !.comps = SubSeq(loc.comps, 1, n)] : n \in 1..Len(loc.comps)}

IsUnder(loc, top) ==
    /\ loc.prefix = top.prefix /\ loc.root = top.root
    /\ Len(loc.comps) >= Len(top.comps)
    /\ SubSeq(loc.comps, 1, Len(top.comps)) = top.comps

\* A filesystem is a function from the locations that exist to their nodes;
\* an anchor (no normal component: the working directory, a root, a drive)
\* is a directory that always exists.
DirNode == [kind |-> "dir", data |-> <<>>]
FileNode(bytes) == [kind |-> "file", data |-> bytes]

IsDir(f, loc) == loc.comps = <<>> \/ (loc \in DOMAIN f /\ f[loc].kind = "dir")
IsFile(f, loc) == loc.comps # <<>> /\ loc \in DOMAIN f /\ f[loc].kind = "file"
Exists(f, loc) == IsDir(f, loc) \/ IsFile(f, loc)

\* std::fs::create_dir_all: mkdir of the path, after the missing ancestors;
\* it fails, having made nothing, when a component of the path is a file.
CreateDirAll(f, loc) ==
    IF \E a \in Ancestry(loc) : IsFile(f, a)
    THEN f
    ELSE [k \in DOMAIN f \cup Ancestry(loc) |-> IF k \in DOMAIN f THEN f[k] ELSE DirNode]

\* std::fs::create_dir: fails when the path exists or its parent is no directory.
CreateDir(f, loc) ==
    IF loc.comps = <<>> \/ Exists(f, loc) \/ ~IsDir(f, Parent(loc))
    THEN f
    ELSE [k \in DOMAIN f \cup {loc} |-> IF k \in DOMAIN f THEN f[k] ELSE DirNode]

\* remove_dir_all that removes nothing: a mutant.
RemoveDirAll_keep(f, loc) == f

\* std::fs::remove_dir_all of a directory: the directory and all below it.
RemoveDirAll(f, loc) ==
    IF loc.comps # <<>> /\ IsDir(f, loc)
    THEN [k \in {x \in DOMAIN f : ~IsUnder(x, loc)} |-> f[k]]
    ELSE f

\* OpenOptions::new().create(true).write(true).truncate(true).open(path)
\* succeeds unless the path names a directory (it ends with a separator, it
\* is an anchor, or a directory is there) or its parent is no directory.
CanOpenForWrite(f, s, t) ==
    LET loc == Location(t, s) IN
    /\ loc.comps # <<>>
    /\ ~EndsWithSeparator(t, s)
    /\ ~IsDir(f, loc)
    /\ IsDir(f, Parent(loc))

WriteFile(f, loc, bytes) ==
    [k \in DOMAIN f \cup {loc} |-> IF k = loc THEN FileNode(bytes) ELSE f[k]]

\* Read::read into a buffer of len bytes at cursor `at` of a source that is a
\* byte slice or a file: the bytes that are there, at most len, and no error
\* at the end of the source.
Read(data, at, len) ==
    IF at >= Len(data) THEN <<>>
    ELSE SubSeq(data, at + 1, Min(at + len, Len(data)))

---------------------------------------------------------------------------
(* Extraction: VtPackFile::save_entry and VtPackFile::export_all *)

\* The out_path the extraction is given (one relative directory name).
OutPath == <<111>>

\* The parent directory of a file left as it is: a mutant.
EnsureParent_skipped(f, loc) == f

\* let dir_path = full_path.parent().unwrap(); let _ = create_dir_all(dir_path);
EnsureParent(f, loc) == CreateDirAll(f, Parent(loc))

\* save_entry on filesystem f: the filesystem and cursor it leaves and whether
\* it returned ("ok") or panicked in an unwrap ("panic").
save_entry(f, at, data, entry, t) ==
    LET full_path == Join(OutPath, entry.path, t)
        loc       == Location(t, full_path)
    IN
    IF entry.is_file
    THEN IF loc.comps = <<>>
         THEN [fs |-> f, pos |-> at, status |-> "panic"]     \* parent().unwrap()
         ELSE LET f1   == EnsureParent(f, loc)
                  got  == Read(data, entry.file_data_abs_offset, entry.file_size)
                  file_data == got \o Zeros(entry.file_size - Len(got))
                  at1  == entry.file_data_abs_offset + Len(got)
              IN IF CanOpenForWrite(f1, full_path, t)
                 THEN [fs |-> WriteFile(f1, loc, file_data), pos |-> at1, status |-> "ok"]
                 ELSE [fs |-> f1, pos |-> at1, status |-> "panic"]   \* open(..).unwrap()
    ELSE [fs |-> CreateDirAll(f, loc), pos |-> at, status |-> "ok"]

\* The loop of export_all over the entries in the order given; a panic ends it.
RECURSIVE SaveEntries(_, _, _, _)
SaveEntries(st, data, entries, t) ==
    IF Len(entries) = 0 \/ st.status = "panic" THEN st
    ELSE LET r == save_entry(st.fs, st.pos, data, Head(entries), t)
         IN SaveEntries(r, data, Tail(entries), t)

\* export_all over `entries`: out_path removed and made anew (both results
\* dropped), then every entry saved.
export_all(f, at, data, entries, t) ==
    LET out == Location(t, OutPath)
        f1  == CreateDir(RemoveDirAll(f, out), out)
    IN SaveEntries([fs |-> f1, pos |-> at, status |-> "ok"], data, entries, t)

---------------------------------------------------------------------------
(* The byte sources the model decodes: archives laid out field by field as  *)
(* the BinRead/BinWrite structures lay them out, and damaged copies of them *)

\* A field of w bytes holding n < 2^24, little-endian.
LE(n, w) ==
    [i \in 1..w |-> IF i = 1 THEN n % 256
                    ELSE IF i = 2 THEN (n \div 256) % 256
                    ELSE IF i = 3 THEN (n \div 65536) % 256
                    ELSE 0]

\* Width of the version-conditional header fields of a laid-out archive.
LayoutWidth(version) == IF version = 2 THEN 8 ELSE 4
LayoutHeaderLen(version) == 22 + 3 * LayoutWidth(version)

\* The string pool of every archive of the model, by offset:
\*   0 "\\a\"  1 "\a\"  2 "a\"  3 "\"  4 ""  5 "/a"  6 "a"  7 ""  8 "a:"
\*   9 ":"  10 ""  11 <0xFF>  12 ""  13 "a" without NUL,  14 the end
Pool == <<92, 92, 97, 92, 0, 47, 97, 0, 97, 58, 0, 255, 0, 97>>

\* The payload bytes that follow the entry table.
Payload == <<11, 22, 33, 44>>

\* Bytes between the header and the pool of an archive laid out with a gap.
Filler == <<238, 238>>

Sentinel == INVALID_STRING_TABLE_OFFSET

\* What an entry holds besides its strings: a directory, a directory with a
\* nonzero size field, a file inside the payload, a file that runs past the
\* end of the source.  data is the offset within the payload, -1 for none.
EntryKinds ==
    {[file_size |-> 0, data |-> -1], [file_size |-> 3, data |-> -1],
     [file_size |-> 2, data |-> 1],  [file_size |-> 3, data |-> 2]}

DirOffsets == {Sentinel} \cup {LE(n, 4) : n \in {0, 1, 2, 3, 4, 5, 6, 8, 13, 15}}
NameOffsets == {Sentinel} \cup {LE(n, 4) : n \in {1, 6, 7, 11, 15}}

\* Every entry of an archive with one entry.
SingleEntries ==
    {[dir |-> d, name |-> n, file_size |-> k.file_size, data |-> k.data] :
        d \in DirOffsets, n \in NameOffsets, k \in EntryKinds}

EntryOf(d, n, size, data) == [dir |-> d, name |-> n, file_size |-> size, data |-> data]

\* The entries of the archives with several entries: they resolve to "a"
\* (as a directory, and as two files of different contents), to "a\a" (as a
\* file and as a directory) and to a file named as a directory ("a\").
SharedEntries ==
    {EntryOf(LE(6, 4), Sentinel, 0, -1),
     EntryOf(Sentinel, LE(6, 4), 2, 0),
     EntryOf(Sentinel, LE(6, 4), 2, 2),
     EntryOf(LE(6, 4), LE(6, 4), 2, 0),
     EntryOf(LE(2, 4), LE(6, 4), 0, -1),
     EntryOf(LE(6, 4), Sentinel, 2, 0)}

SeqsUpTo(S, n) == UNION {[1..k -> S] : k \in 0..n}

Variants == {"full", "cut_header", "cut_pool", "cut_entries", "bad_magic", "bad_version"}

Inputs ==
    {[version |-> v, gap |-> 0, variant |-> "full", entries |-> <<e>>] :
        v \in VtPackVersion, e \in SingleEntries}
    \cup
    {[version |-> v, gap |-> g, variant |-> "full", entries |-> es] :
        v \in VtPackVersion, g \in {0, Len(Filler)}, es \in SeqsUpTo(SharedEntries, MaxEntries)}
    \cup
    {[version |-> v, gap |-> g, variant |-> x, entries |-> es] :
        v \in VtPackVersion, g \in {0, Len(Filler)}, x \in Variants \ {"full"},
        es \in SeqsUpTo(SharedEntries, 1)}

PoolAt(in) == LayoutHeaderLen(in.version) + in.gap
EntriesAt(in) == PoolAt(in) + 4 + Len(Pool)
PayloadAt(in) == EntriesAt(in) + EntryLen * Len(in.entries)

EntryBytes(in, e) ==
    e.name \o e.dir \o Zeros(4) \o LE(e.file_size, 8) \o Zeros(8)
    \o LE(IF e.data < 0 THEN 0 ELSE PayloadAt(in) + e.data, 8) \o Zeros(4) \o Zeros(4)

RECURSIVE Concat(_)
Concat(ss) == IF Len(ss) = 0 THEN <<>> ELSE Head(ss) \o Concat(Tail(ss))

\* The whole archive: a header of version hv, gap, pool, the entry records
\* of `in`, payload.
Layout(in, hv) ==
    LET w == LayoutWidth(hv) IN
    Magic \o LE(IF in.variant = "bad_version" THEN 3 ELSE hv, 4)
    \o Zeros(4) \o Zeros(4) \o Zeros(w) \o Zeros(w)
    \o LE(Len(in.entries), 4) \o LE(LayoutHeaderLen(hv) + in.gap, w)
    \o SubSeq(Filler, 1, in.gap)
    \o LE(Len(Pool), 4) \o Pool
    \o Concat([i \in 1..Len(in.entries) |-> EntryBytes(in, in.entries[i])])
    \o Payload

\* The source: the archive, or a copy cut short or with a damaged header.
Build(in) ==
    LET all == Layout(in, in.version) IN
    CASE in.variant = "cut_header"  -> SubSeq(all, 1, LayoutHeaderLen(in.version) - 3)
      [] in.variant = "cut_pool"    -> SubSeq(all, 1, EntriesAt(in) - 3)
      [] in.variant = "cut_entries" -> SubSeq(all, 1, PayloadAt(in) - 5)
      [] in.variant = "bad_magic"   -> <<86>> \o Tail(all)
      [] OTHER                      -> all

\* The same pool and entry records under a header of the other version.
Counterpart(in) == Layout(in, 3 - in.version)

\* The filesystems an extraction starts from: out_path absent, an empty
\* directory, or a directory holding files and directories of its own.
OutLoc(t) == Location(t, OutPath)
Below(t, names) == [OutLoc(t) EXCEPT !.comps = @ \o names]

InitialFilesystems(t) ==
    {<<>>,
     [k \in {OutLoc(t)} |-> DirNode],
     [k \in {OutLoc(t), Below(t, <<<<97>>>>), Below(t, <<<<122>>>>), Below(t, <<<<122>>, <<97>>>>)} |->
        IF k = OutLoc(t) \/ k = Below(t, <<<<122>>>>) THEN DirNode ELSE FileNode(<<9>>)]}

---------------------------------------------------------------------------
(* The state machine *)

NoOp == [op |-> "none", entry |-> 0, status |-> "none"]

Init ==
    /\ target \in {"unix", "windows"}
    /\ input \in Inputs
    /\ src = Build(input)
    /\ pos = 0
    /\ pc = "init"
    /\ result = "none"
    /\ raw = NoRaw
    /\ p_entries = <<>>
    /\ entries_pos = 0
    /\ fs \in InitialFilesystems(target)
    /\ fs_before = fs
    /\ last_op = NoOp
    /\ ops = 0

\* VtPackFile::new(&mut reader)
New ==
    /\ pc = "init"
    /\ LET r == VtPackFile_new(src, pos, target) IN
        /\ result' = r.status
        /\ raw' = r.raw
        /\ p_entries' = r.p_entries
        /\ pos' = r.pos
        /\ entries_pos' = r.entries_pos
        /\ pc' = IF r.status = "ok" THEN "ready" ELSE "failed"
    /\ UNCHANGED <<target, input, src, fs, fs_before, last_op, ops>>

\* vtpack.save_entry(&mut reader, &vtpack.list_entries()[i], out_path)
SaveEntry(i) ==
    /\ pc = "ready"
    /\ ops < MaxOps
    /\ LET r == save_entry(fs, pos, src, p_entries[i], target) IN
        /\ fs' = r.fs
        /\ pos' = r.pos
        /\ last_op' = [op |-> "save_entry", entry |-> i, status |-> r.status]
        /\ pc' = IF r.status = "ok" THEN "ready" ELSE "aborted"
    /\ fs_before' = fs
    /\ ops' = ops + 1
    /\ UNCHANGED <<target, input, src, result, raw, p_entries, entries_pos>>

\* vtpack.export_all(&mut reader, out_path)
ExportAll ==
    /\ pc = "ready"
    /\ ops < MaxOps
    /\ LET r == export_all(fs, pos, src, p_entries, target) IN
        /\ fs' = r.fs
        /\ pos' = r.pos
        /\ last_op' = [op |-> "export_all", entry |-> 0, status |-> r.status]
        /\ pc' = IF r.status = "ok" THEN "ready" ELSE "aborted"
    /\ fs_before' = fs
    /\ ops' = ops + 1
    /\ UNCHANGED <<target, input, src, result, raw, p_entries, entries_pos>>

Next ==
    \/ New
    \/ \E i \in 1..Len(p_entries) : SaveEntry(i)
    \/ ExportAll

Spec == Init /\ [][Next]_vars

---------------------------------------------------------------------------
(* The claims *)

Decoded == pc # "init"
Intact == input.variant = "full"

\* What lies under out_path.
Tree(f) == [k \in {x \in DOMAIN f : IsUnder(x, OutLoc(target))} |-> f[k]]

\* An offset of a laid-out entry that is not the sentinel and lies past the pool.
OutOfPool(offset) == offset # Sentinel /\ LeValue(offset) > Len(Pool)

\* An offset of a laid-out entry at which a NUL-terminated string starts.
ValidOffset(offset) == offset = Sentinel \/ LeValue(offset) <= 12

\* C1: every resolved path has no leading path separator and no drive prefix,
\* so that out_path joined with it lies under out_path.
C1_ResolvedPathsStayUnderRoot ==
    \A i \in 1..Len(p_entries) :
        LET path == p_entries[i].path IN
        /\ ~(Len(path) > 0 /\ IsSeparator(target, path[1]))
        /\ ~HasPrefix(target, path)
        /\ IsUnder(Location(target, Join(OutPath, path, target)), OutLoc(target))

C3_PayloadReadExactly ==
    (last_op.op = "save_entry" /\ p_entries[last_op.entry].is_file) =>
        LET e   == p_entries[last_op.entry]
            loc == Location(target, Join(OutPath, e.path, target))
        IN IF e.file_data_abs_offset + e.file_size <= Len(src)
           THEN last_op.status = "ok" =>
                    /\ IsFile(fs, loc)
                    /\ fs[loc].data = SubSeq(src, e.file_data_abs_offset + 1,
                                             e.file_data_abs_offset + e.file_size)
           ELSE last_op.status # "ok"

\* C4: decoding a complete archive with a string offset past the pool returns
\* an error value: no abort of the program, no VtPackFile.
C4_OffsetErrorReturned ==
    (Decoded /\ Intact
     /\ \E i \in 1..Len(input.entries) :
            OutOfPool(input.entries[i].dir) \/ OutOfPool(input.entries[i].name))
    => result = "err"

\* C5: when the source ends before the declared pool bytes or before
\* entry_count entry records were read, VtPackFile::new returns an error: no
\* panic, and no VtPackFile with a partial pool or fewer entries.
C5_TruncationIsAnError ==
    (Decoded /\ input.variant \in {"cut_pool", "cut_entries"}
     /\ Len(src) >= LayoutHeaderLen(input.version) /\ Len(src) < PayloadAt(input))
    => /\ result = "err"
       /\ pc = "failed"
       /\ raw = NoRaw
       /\ p_entries = <<>>

\* C5 witness: a source cut inside its one entry record (pool complete) was
\* decoded and new returned an error.
C5_Witness ==
    /\ pc = "failed" /\ result = "err" /\ input.variant = "cut_entries"
    /\ Len(input.entries) = 1
    /\ Len(src) >= EntriesAt(input) /\ Len(src) < PayloadAt(input)

\* export_all of the entries in the order perm gives the outcome and the tree
\* that the export_all just made gave.
SameInEveryOrder ==
    \A perm \in Permutations(1..Len(p_entries)) :
        LET r == export_all(fs_before, 0, src,
                            [i \in 1..Len(p_entries) |-> p_entries[perm[i]]], target)
        IN r.status = last_op.status /\ Tree(r.fs) = Tree(fs)

EntryLoc(e) == Location(target, Join(OutPath, e.path, target))

\* No file entry is named as a directory (its joined path has no final
\* component or ends with a separator, as that of an empty path does), and no file entry's location is the location of another entry
\* or lies above it.
FilesApart ==
    \A i \in 1..Len(p_entries) :
        p_entries[i].is_file =>
            /\ EntryLoc(p_entries[i]).comps # <<>>
            /\ ~EndsWithSeparator(target, Join(OutPath, p_entries[i].path, target))
            /\ \A j \in 1..Len(p_entries) :
                j # i => ~IsUnder(EntryLoc(p_entries[j]), EntryLoc(p_entries[i]))

C7_ExportIsDestructiveAndIdempotent ==
    (last_op.op = "export_all" /\ last_op.status = "ok") =>
        Tree(fs) = Tree(export_all(<<>>, 0, src, p_entries, target).fs)

\* C7 witness: export_all completed over an out_path that held a file of its
\* own; that file is gone and a file of the archive is there.
C7_Witness ==
    /\ last_op.op = "export_all" /\ last_op.status = "ok"
    /\ Below(target, <<<<122>>, <<97>>>>) \in DOMAIN fs_before
    /\ Below(target, <<<<122>>, <<97>>>>) \notin DOMAIN fs
    /\ \E i \in 1..Len(p_entries) : IsFile(fs, EntryLoc(p_entries[i]))

\* C8: a sentinel offset leaves no stray separator: with only the name absent
\* the path has no trailing separator, with only the directory absent it has
\* no leading one, with both absent it is empty.
C8_SentinelLeavesNoSeparator ==
    pc = "ready" =>
        \A i \in 1..Len(p_entries) :
            LET e    == raw.entries[i]
                path == p_entries[i].path
            IN
            /\ e.path_name_str_table_offset = INVALID_STRING_TABLE_OFFSET =>
                    ~(Len(path) > 0 /\ path[Len(path)] = MAIN_SEPARATOR(target))
            /\ e.path_dir_str_table_offset = INVALID_STRING_TABLE_OFFSET =>
                    ~(Len(path) > 0 /\ path[1] = MAIN_SEPARATOR(target))
            /\ (e.path_name_str_table_offset = INVALID_STRING_TABLE_OFFSET
                /\ e.path_dir_str_table_offset = INVALID_STRING_TABLE_OFFSET) => path = <<>>

C10_VersionsDecodeAlike ==
    (Decoded /\ Intact) =>
        LET other == VtPackFile_new(Counterpart(input), 0, target) IN
        /\ other.status = result
        /\ other.p_entries = p_entries
        /\ (\A i \in 1..Len(input.entries) :
                ValidOffset(input.entries[i].dir) /\ ValidOffset(input.entries[i].name))
            => (result = "ok" /\ Len(p_entries) = Len(input.entries))

\* C10 witness: a version 2 archive with a file and a directory entry was
\* decoded, and its version 1 counterpart decodes too.
C10_Witness ==
    /\ pc = "ready" /\ input.version = 2 /\ Len(p_entries) = 2
    /\ p_entries[1].is_file /\ ~p_entries[2].is_file
    /\ VtPackFile_new(Counterpart(input), 0, target).status = "ok"
    /\ VtPackRawFile_read(Counterpart(input), 0).raw.version = 1

====
